---- MODULE Spec2Model ----
(***************************************************************************)
(* A model of the JavaObject code generator: the batch driver              *)
(* parse_all_files (src/main.py), the class assembler ClassGenerator with  *)
(* its root RootClassGenerator                                             *)
(* (src/java_object_utill/java_object_generator.py), and the document tree *)
(* with its write() (src/code_generator/java/java_code_generator.py).      *)
(*                                                                         *)
(* Python values are modelled as follows.  A dict is a TLA+ record (a      *)
(* function on its keys), so `'k' in d` is "k" \in DOMAIN d.  None is the  *)
(* empty sequence and a present value x is <<x>>.  A Python list object is *)
(* a cell of `heap`, named by the assembler that owns it, so that two      *)
(* references to one list (aliasing) and a copy of a list are different    *)
(* things.  A text is the tuple of the pieces it is concatenated from, so    *)
(* "a" + b is <<"a">> \o b; a field's name alone is kept as a plain string.  *)
(* The characters write() looks for at either end of a line, { } ; and /,  *)
(* are always pieces of their own, so that endswith and startswith are     *)
(* tests on the last and the first pieces.                                 *)
(***************************************************************************)
EXTENDS Integers, Sequences, FiniteSets, TLC

\* ---------------------------------------------------------------- bounds
\* The most own fields a schema of the batch declares.
MaxFields == 2
\* The interpreter's recursion limit (sys.getrecursionlimit()), scaled down.
RecursionLimit == 5
\* The most lines of a .java file that exists before the first run.
MaxLines == 4
\* The most runs of parse_all_files over one directory.
MaxRuns == 2
\* The most calls of generate() on one assembler.
MaxGenerations == 2

\* ------------------------------------------------------------ the inputs
\* The class names of the schema files a batch may hold (file names are
\* unique, so class names are).
Classes == {"A", "B", "C"}
\* The key the root assembler is registered under.
Root == "Displayable_DataObject"
Assemblers == Classes \cup {Root}

\* The i-th own field of a schema is named FieldNames[i].
FieldNames == <<"FileName", "ContainerPath", "FullPath", "Extra">>

\* field['name'][0].lower() + field['name'][1:]
LowerFirst(name) ==
    CASE name = "FileName" -> "fileName"
      [] name = "ContainerPath" -> "containerPath"
      [] name = "FullPath" -> "fullPath"
      [] name = "Extra" -> "extra"
      [] name = "ID" -> "iD"
      [] name = "Children" -> "children"

\* The JSON of one field, without its name: only the keys the file gives.
PlainField == [type |-> <<"String">>]
SourceField == [type |-> <<"Owner">>, database_source |-> TRUE]
SourceAvoidField == [type |-> <<"Owner">>, database_source |-> TRUE, avoid_constructor |-> TRUE]
StaticField == [type |-> <<"String">>, dataCore |-> [static |-> [value |-> <<"v">>]]]
UnknownCoreField == [type |-> <<"String">>, dataCore |-> [bogus |-> [value |-> <<"v">>]]]
ListTypeField == [listType |-> <<"Item">>]
UntypedField == [canBeNull |-> TRUE]

Named(kinds) == [i \in DOMAIN kinds |-> kinds[i] @@ ("name" :> FieldNames[i])]

\* Every 'fields' array of at most MaxFields fields of the given kinds.
FieldArrays(kinds) ==
    UNION {{Named(ks) : ks \in [1..n -> kinds]} : n \in 0..MaxFields}

\* The schema documents: 'extends' and 'fields' are required, the rest optional.
Schemas(parents, kinds) ==
    {[extends |-> e, fields |-> fs] : e \in parents, fs \in FieldArrays(kinds)}

\* Schemas on which the constructor or generate() raises by themselves.
FaultySchemas ==
    {[extends |-> Root, fields |-> Named(<<k>>)] :
        k \in {UntypedField, UnknownCoreField, StaticField}}
    \cup {[extends |-> Root, fields |-> Named(<<PlainField>>), implements |-> "FileInterface"]}

\* The resolution scenarios: every class may name any assembler as its parent,
\* itself and classes that are never discovered included.
ResolveSchemas == [c \in Classes |-> Schemas(Assemblers, {PlainField}) \cup FaultySchemas]

\* The generation scenarios: a class A under the root and a class B under A,
\* abstract or concrete, with fields the constructor takes (with and without
\* database_source) and fields flagged avoid_constructor.
GenerateKinds == {ListTypeField, SourceField, SourceAvoidField}
GenerateParents(c) ==
    CASE c = "A" -> {Root}
      [] c = "B" -> {"A"}
      [] OTHER -> {}
GenerateSchemas ==
    [c \in Classes |->
        Schemas(GenerateParents(c), GenerateKinds)
            \cup {s @@ [abstract |-> TRUE] : s \in Schemas(GenerateParents(c), GenerateKinds)}]

\* The class-body scenarios: one class A under the root, with and without
\* fields the constructor takes, a string_source field, customToString (one of
\* the two expressions ends with a comment marker), listDef, abstract.
StringSourceField == [type |-> <<"String">>, string_source |-> TRUE]
BodyKinds == {PlainField, StringSourceField, SourceAvoidField}
NoOption == [k \in {} |-> TRUE]
BodyOptions ==
    {a @@ l @@ t :
        a \in {NoOption, [abstract |-> TRUE]},
        l \in {NoOption, [listDef |-> TRUE]},
        t \in {NoOption, [customToString |-> <<"getName()">>],
               [customToString |-> <<"getName() ", "/", "/">>]}}
FileInterfaceSchema ==
    [extends |-> Root, fields |-> Named(<<PlainField, PlainField, PlainField>>),
     implements |-> "FileInterface"]
BodySchemas ==
    [c \in Classes |->
        IF c = "A"
        THEN {s @@ o : s \in Schemas({Root}, BodyKinds), o \in BodyOptions}
                \cup {FileInterfaceSchema}
        ELSE {}]

\* The re-run scenarios: one class A, concrete or abstract, whose .java file
\* may exist before the first run with any lines of PriorLines: a blank line,
\* a line of white space, an import, an import without its semicolon, and a
\* line that is neither.
RerunSchemas ==
    [c \in Classes |->
        IF c = "A"
        THEN {[extends |-> Root, fields |-> Named(<<PlainField>>)],
              [extends |-> Root, fields |-> Named(<<PlainField>>), abstract |-> TRUE]}
        ELSE {}]
PriorLines ==
    { <<"\n">>,
      <<"    ", "\n">>,
      <<"import", " app.Owner", ";", "\n">>,
      <<"import", " app.Item", "\n">>,
      <<"public ", "class ", "A", " ", "{", "\n">> }
PriorFiles == UNION {[1..n -> PriorLines] : n \in 0..MaxLines}

\* --------------------------------------------------------------- values
None == <<>>
Some(x) == <<x>>
IsNone(v) == v = <<>>
Get(v) == v[1]

\* if 'k' not in d: d['k'] = v
Default(d, k, v) == IF k \in DOMAIN d THEN d ELSE d @@ (k :> v)
\* d['k'] = v
Put(d, k, v) == (k :> v) @@ d

\* list.index(x): the first position holding a value equal to x (0: ValueError)
Index(list, x) ==
    IF \E i \in DOMAIN list : list[i] = x
    THEN CHOOSE i \in DOMAIN list : list[i] = x /\ \A j \in 1..(i - 1) : list[j] # x
    ELSE 0

\* list.insert(i, x) with a 0-based i in 0..len(list)
Insert(list, i, x) == SubSeq(list, 1, i) \o <<x>> \o SubSeq(list, i + 1, Len(list))

\* x in list
In(x, list) == \E i \in DOMAIN list : list[i] = x

\* ------------------------------------------------------- the document tree
\* A str child of a WritableSection.
Line(text) == [kind |-> "line", text |-> text]
\* A WritableSection: _tab_offset and _code_lines as its constructor sets
\* them, its _sections, and code_lines, the attribute the generator assigns
\* False to on the sections it means to be raw (TRUE where it assigns none).
Section(code_lines, sections) ==
    [kind |-> "section", _tab_offset |-> 0, _code_lines |-> TRUE,
     code_lines |-> code_lines, sections |-> sections]
\* A JavaMethod; comment holds the lines of its BlockComment.
Method(name, return_type, static, comment, param, code_lines, sections) ==
    [kind |-> "method", _tab_offset |-> 0, _code_lines |-> TRUE,
     name |-> name, return_type |-> return_type, static |-> static,
     comment |-> comment, attributes |-> <<>>, param |-> param,
     code_lines |-> code_lines, sections |-> sections]
\* A SectionComment.
SectionComment(comment) ==
    [kind |-> "comment", _tab_offset |-> 0, _code_lines |-> TRUE,
     comment |-> comment, sections |-> <<>>]
\* A JavaClass: abstract False, no extensions, no sections.
JavaClass(name) ==
    [kind |-> "class", _tab_offset |-> 0, _code_lines |-> TRUE, name |-> name,
     abstract |-> FALSE, extensions |-> <<>>, sections |-> <<>>]
\* A JavaFile; its _sections are the import lines.
JavaFile(name, package) ==
    [kind |-> "file", _tab_offset |-> 0, _code_lines |-> TRUE, name |-> name,
     package |-> package, javaClass |-> JavaClass(name), sections |-> <<>>]

\* ------------------------------------------------ ClassGenerator.__init__
\* The defaults of one field, its key, and its type and getType.
NormaliseField(class_name, field) ==
    LET f1 == Put(field, "key", <<class_name, "_", field.name>>)
        f2 == Default(f1, "string_source", FALSE)
        f3 == Default(f2, "editable", FALSE)
        f4 == Default(f3, "avoid_constructor", FALSE)
        f5 == Default(f4, "database_source", FALSE)
        f6 == Default(f5, "is_override", FALSE)
        f7 == Default(f6, "canBeNull", FALSE)
        f8 == Default(f7, "is_list", FALSE)
        f9 == IF "type" \notin DOMAIN f8
              THEN Put(Put(f8, "type", f8.listType \o <<"List">>),
                       "getType", <<"List<">> \o f8.listType \o <<">">>)
              ELSE Put(f8, "getType", f8.type)
    IN  Default(f9, "fieldType", <<"DataField_Schema">>)

\* "Either type or listType must be declared in the JSON file"
UntypedFieldFound(json) ==
    \E i \in DOMAIN json.fields :
        "type" \notin DOMAIN json.fields[i] /\ "listType" \notin DOMAIN json.fields[i]

FileInterfaceNames == {"FileName", "ContainerPath", "FullPath"}

\* "FileInterface methods missing"
FileInterfaceMissing(json) ==
    /\ json.implements = "FileInterface"
    /\ \E n \in FileInterfaceNames : \A i \in DOMAIN json.fields : json.fields[i].name # n

\* The fields of a FileInterface class that fulfil it are overrides.
MarkOverride(json, field) ==
    IF json.implements = "FileInterface" /\ field.name \in FileInterfaceNames
    THEN Put(field, "is_override", TRUE)
    ELSE field

\* "TODO remove": a field with a dataCore is kept out of the constructor.
MarkDataCore(field) ==
    IF "dataCore" \in DOMAIN field THEN Put(field, "avoid_constructor", TRUE) ELSE field

\* The class-level defaults.
NormaliseClass(json) ==
    Default(Default(Default(json, "abstract", FALSE), "implements", "None"), "listDef", FALSE)

\* Whether the constructor raises on this schema.
ConstructorRaises(json) ==
    \/ UntypedFieldFound(json)
    \/ FileInterfaceMissing(NormaliseClass(json))

\* self._json_data after the constructor: 'fields' is self._fields.
Construct(class_name, json) ==
    LET j == NormaliseClass(json)
    IN  Put(j, "fields",
            [i \in DOMAIN j.fields |->
                MarkDataCore(MarkOverride(j, NormaliseField(class_name, j.fields[i])))])

\* ----------------------------------------------------- RootClassGenerator
RootFields ==
    << [name |-> "ID", type |-> <<"Integer">>, avoid_constructor |-> TRUE],
       [name |-> "Children", type |-> <<"DataObjectList">>, avoid_constructor |-> TRUE] >>

\* self._follow_field = self._fields[0]
RootFollowField == RootFields[1]

\* ----------------------------------------------------------------- state
VARIABLES
    pc,             \* where parse_all_files is: "discover", "generate",
                    \* "resolve", "sections", "write", "done", "aborted"
    class_dict,     \* java_files_dict: class name -> None or the assembler's _json_data
    java_files,     \* the assemblers in the order they were discovered
    follow_field,   \* assembler -> _follow_field (None or a field)
    full_fields,    \* assembler -> the list object _full_fields refers to
    heap,           \* list object -> its elements
    stack,          \* the get_full_field_list calls in progress, outermost first
    resumed,        \* whether the innermost call is past its if-block (at its return)
    returned,       \* assembler -> None or the pair its last completed call returned
    to_write,       \* class name -> None or the assembler whose self.file generate() returned
    written,        \* the files write_file has written, in order
    error,          \* None or the exception parse_all_files caught and printed
    file,           \* class name -> None or self.file, the assembler's JavaFile
    files,          \* class name -> None or the lines of its .java file on disk
    rewrite,        \* class name -> None or the lines a second write() produced
    run             \* how many times parse_all_files was started

vars == <<pc, class_dict, java_files, follow_field, full_fields, heap, stack,
          resumed, returned, to_write, written, error, file, files, rewrite, run>>

\* The assemblers registered in java_files_dict.
Registered(name) == name = Root \/ (name \in Classes /\ ~IsNone(class_dict[name]))

Json(c) == Get(class_dict[c])

\* self._fields
Fields(c) == IF c = Root THEN RootFields ELSE Json(c).fields

\* The elements of self._full_fields
FullFields(c) == heap[full_fields[c]]

\* The state parse_all_files starts in, over the .java files on disk.
Start(java_files_on_disk) ==
    /\ pc = "discover"
    /\ class_dict = [c \in Classes |-> None]
    /\ java_files = <<>>
    /\ follow_field = [a \in Assemblers |-> IF a = Root THEN Some(RootFollowField) ELSE None]
    /\ full_fields = [a \in Assemblers |-> a]
    /\ heap = [a \in Assemblers |-> IF a = Root THEN RootFields ELSE <<>>]
    /\ stack = <<>>
    /\ resumed = FALSE
    /\ returned = [a \in Assemblers |-> None]
    /\ to_write = [c \in Classes |-> None]
    /\ written = <<>>
    /\ error = None
    /\ file = [c \in Classes |-> None]
    /\ files = java_files_on_disk
    /\ rewrite = [c \in Classes |-> None]
    /\ run = 1

\* A first run: no .java file exists.
Init == Start([c \in Classes |-> None])

\* A run over a directory where A.java may exist.
InitRerun ==
    \E java_file \in {None} \cup {Some(lines) : lines \in PriorFiles} :
        Start([c \in Classes |-> IF c = "A" THEN java_file ELSE None])

\* except Exception as e: traceback.print_exc(); print(e); return
Abort(e) ==
    /\ pc' = "aborted"
    /\ error' = Some(e)
    /\ stack' = <<>>
    /\ resumed' = FALSE

\* ------------------------------------------------------- parse_all_files
\* The discovery loop's handler: the exception is printed and the batch ends.
DiscoverRaised(e) == Abort(e)

\* A handler that leaves the generation loop (break) and falls into the write loop.
GenerateRaisedBreak(e) ==
    /\ pc' = "write"
    /\ error' = Some(e)
    /\ stack' = <<>>
    /\ resumed' = FALSE

\* The generation loop's handler: the exception is printed and the batch ends
\* before the write loop.
GenerateRaised(e) == Abort(e)

\* The write loop nested in the generation loop.
AfterGenerateWrite(c) == "write"

\* The generation loop goes on to the next assembler; the write loop follows
\* the last one.
AfterGenerate(c) == IF c = java_files[Len(java_files)] THEN "write" ELSE "generate"

\* A read that keeps the lines as readlines() gives them.
RstripNone(line) == line

\* line.rstrip(): the trailing pieces of white space are dropped.
WhiteSpace == {"\n", " ", "    "}
RECURSIVE Rstrip(_)
Rstrip(line) ==
    IF line # <<>> /\ line[Len(line)] \in WhiteSpace
    THEN Rstrip(SubSeq(line, 1, Len(line) - 1))
    ELSE line

\* line.startswith("import"): the word is a piece of its own.
IsImport(line) == line # <<>> /\ line[1] = "import"

\* process_existing_file without the break: it scans the whole file.
RECURSIVE ProcessExistingFileNoBreak(_, _, _, _, _)
ProcessExistingFileNoBreak(sections, file_lines, i, add_blank, imports_start) ==
    IF i > Len(file_lines) THEN sections
    ELSE LET line == file_lines[i]
         IN  IF IsImport(line)
             THEN ProcessExistingFileNoBreak(
                    (IF add_blank THEN Append(sections, Line(<<>>)) ELSE sections)
                        \o << Line(line) >>,
                    file_lines, i + 1, FALSE, TRUE)
             ELSE IF line = <<>>
             THEN ProcessExistingFileNoBreak(sections, file_lines, i + 1,
                                             add_blank \/ imports_start, imports_start)
             ELSE ProcessExistingFileNoBreak(sections, file_lines, i + 1,
                                             add_blank, imports_start)

\* process_existing_file from the i-th line on: the lines self.file.append
\* has received.
RECURSIVE ProcessExistingFile(_, _, _, _, _)
ProcessExistingFile(sections, file_lines, i, add_blank, imports_start) ==
    IF i > Len(file_lines) THEN sections
    ELSE LET line == file_lines[i]
         IN  IF IsImport(line)
             THEN ProcessExistingFile(
                    (IF add_blank THEN Append(sections, Line(<<>>)) ELSE sections)
                        \o << Line(line) >>,
                    file_lines, i + 1, FALSE, TRUE)
             ELSE IF line = <<>>
             THEN ProcessExistingFile(sections, file_lines, i + 1,
                                      add_blank \/ imports_start, imports_start)
             ELSE IF imports_start THEN sections
             ELSE ProcessExistingFile(sections, file_lines, i + 1, add_blank, imports_start)

\* start_package + the directory of the schema, with dots.
Package == <<"app.data">>

\* parse_file: the assembler's JavaFile, with the imports of the .java file
\* of the class when there is one.
ParseFile(c, java_file) ==
    IF IsNone(java_file) THEN JavaFile(c, Package)
    ELSE LET lines == [i \in DOMAIN Get(java_file) |-> Rstrip(Get(java_file)[i])]
         IN  [JavaFile(c, Package) EXCEPT
                !.sections = ProcessExistingFile(<<>>, lines, 1, FALSE, FALSE)]

\* One schema file found by os.walk: parse_file builds its assembler, which is
\* appended to java_files and registered under its class name.
Discover(schemas) ==
    /\ pc = "discover"
    /\ \E c \in Classes : \E json \in schemas[c] :
        /\ IsNone(class_dict[c])
        /\ IF ConstructorRaises(json)
           THEN /\ DiscoverRaised("Exception")
                /\ UNCHANGED <<class_dict, java_files, file>>
           ELSE /\ class_dict' = [class_dict EXCEPT ![c] = Some(Construct(c, json))]
                /\ java_files' = Append(java_files, c)
                /\ file' = [file EXCEPT ![c] = Some(ParseFile(c, files[c]))]
                /\ UNCHANGED <<pc, error, stack, resumed>>
    /\ UNCHANGED <<follow_field, full_fields, heap, returned, to_write, written,
                   files, rewrite, run>>

\* os.walk is exhausted: the generation loop starts.
EndDiscovery ==
    /\ pc = "discover"
    /\ pc' = IF java_files = <<>> THEN "done" ELSE "generate"
    /\ UNCHANGED <<class_dict, java_files, follow_field, full_fields, heap, stack,
                   resumed, returned, to_write, written, error, file, files, rewrite, run>>

\* The assembler the generation loop is at: the first without a document.
Generating == java_files[Len(SelectSeq(java_files, LAMBDA c : ~IsNone(to_write[c]))) + 1]

\* generate() is entered and calls self.get_full_field_list().
GenerateCall ==
    /\ pc = "generate"
    /\ pc' = "resolve"
    /\ stack' = <<Generating>>
    /\ UNCHANGED <<class_dict, java_files, follow_field, full_fields, heap,
                   resumed, returned, to_write, written, error, file, files, rewrite, run>>

\* ------------------------------------ ClassGenerator.get_full_field_list
\* A memo test that takes the follow field for set only when it is one of the
\* class's own fields.
UnresolvedUnlessOwnFollow(c) ==
    IF IsNone(follow_field[c]) THEN TRUE
    ELSE c # Root /\ ~In(Get(follow_field[c]), Fields(c))

\* if self._follow_field is None: the list is not resolved yet.
Unresolved(c) == IsNone(follow_field[c])

\* A return without .copy(): the caller receives the callee's own list.
ReturnedListAliased(callee_list, caller) == callee_list

\* The root alone returning its own list.
ReturnedListRootAliased(callee_list, caller) ==
    IF callee_list = Root THEN callee_list ELSE caller

\* self._full_fields.copy(): the list object the caller receives, a fresh one
\* (named by the caller, the only one that keeps it), never the callee's own.
ReturnedList(callee_list, caller) == caller

\* The loop without `self._follow_field = field`: every field is inserted
\* right after the parent's follow field.
RECURSIVE InsertOwnFieldsNoAdvance(_, _, _, _)
InsertOwnFieldsNoAdvance(follow, list, fields, i) ==
    IF i > Len(fields) THEN [ok |-> TRUE, follow |-> follow, list |-> list]
    ELSE IF Index(list, follow) = 0 THEN [ok |-> FALSE, follow |-> follow, list |-> list]
    ELSE InsertOwnFieldsNoAdvance(follow, Insert(list, Index(list, follow), fields[i]),
                                  fields, i + 1)

\* for field in self._fields: insert it after the follow field, then follow it.
RECURSIVE InsertOwnFields(_, _, _, _)
InsertOwnFields(follow, list, fields, i) ==
    IF i > Len(fields) THEN [ok |-> TRUE, follow |-> follow, list |-> list]
    ELSE IF Index(list, follow) = 0 THEN [ok |-> FALSE, follow |-> follow, list |-> list]
    ELSE InsertOwnFields(fields[i], Insert(list, Index(list, follow), fields[i]), fields, i + 1)

\* The call at the top of the stack finds its list unresolved and calls
\* self._class_dict[self._json_data['extends']].get_full_field_list().
AskParent ==
    /\ pc = "resolve"
    /\ LET c == stack[Len(stack)]
           parent == Json(c).extends
       IN  /\ ~resumed
           /\ Unresolved(c)
           /\ IF ~Registered(parent)
              THEN GenerateRaised("KeyError")
              ELSE IF Len(stack) >= RecursionLimit
              THEN GenerateRaised("RecursionError")
              ELSE /\ stack' = Append(stack, parent)
                   /\ UNCHANGED <<pc, error, resumed>>
    /\ UNCHANGED <<class_dict, java_files, follow_field, full_fields, heap,
                   returned, to_write, written, file, files, rewrite, run>>

\* The call at the top of the stack returns (follow field, copy of the list).
\* Its caller, if it is another get_full_field_list, assigns the pair and
\* inserts its own fields; if it is generate(), the pair is dropped.
Return ==
    /\ pc = "resolve"
    /\ LET c == stack[Len(stack)]
           pair == [follow |-> Get(follow_field[c]), list |-> FullFields(c)]
       IN  /\ resumed \/ ~Unresolved(c)
           /\ returned' = [returned EXCEPT ![c] = Some(pair)]
           /\ IF Len(stack) = 1
              THEN /\ pc' = "sections"
                   /\ stack' = <<>>
                   /\ resumed' = FALSE
                   /\ UNCHANGED <<follow_field, full_fields, heap, error>>
              ELSE LET d == stack[Len(stack) - 1]
                       cell == ReturnedList(full_fields[c], d)
                       r == InsertOwnFields(pair.follow, pair.list, Fields(d), 1)
                   IN  IF ~r.ok
                       THEN /\ GenerateRaised("ValueError")
                            /\ UNCHANGED <<follow_field, full_fields, heap>>
                       ELSE /\ follow_field' = [follow_field EXCEPT ![d] = Some(r.follow)]
                            /\ full_fields' = [full_fields EXCEPT ![d] = cell]
                            /\ heap' = [heap EXCEPT ![cell] = r.list]
                            /\ stack' = SubSeq(stack, 1, Len(stack) - 1)
                            /\ resumed' = TRUE
                            /\ UNCHANGED <<pc, error>>
    /\ UNCHANGED <<class_dict, java_files, to_write, written, file, files, rewrite, run>>

\* ------------------------------------------------ WritableSection.write
\* The width SectionComment fills, in characters.
LineWidth == 118

\* tab_offset times "    "
Indent(tab_offset) == [i \in 1..tab_offset |-> "    "]

\* _blank_line
BlankLine == <<"\n">>

\* text.endswith(piece) and text.startswith(pieces) of a non-empty text
EndsWith(text, piece) == text[Len(text)] = piece
StartsWith(text, pieces) ==
    Len(text) >= Len(pieces) /\ SubSeq(text, 1, Len(pieces)) = pieces

\* _add_code_line that takes a line for a comment when it ends with the marker.
AddCodeLineCommentAtEnd(text, tab_offset) ==
    IF text # <<>>
    THEN Indent(tab_offset) \o text
            \o (IF \/ EndsWith(text, "{") \/ EndsWith(text, "}")
                    \/ (Len(text) >= 2 /\ SubSeq(text, Len(text) - 1, Len(text)) = <<"/", "/">>)
                    \/ EndsWith(text, ";")
                THEN <<"\n">> ELSE <<";", "\n">>)
    ELSE BlankLine

\* _add_code_line (tabs = 0)
AddCodeLine(text, tab_offset) ==
    IF text # <<>>
    THEN Indent(tab_offset) \o text
            \o (IF \/ EndsWith(text, "{") \/ EndsWith(text, "}")
                    \/ StartsWith(text, <<"/", "/">>) \/ EndsWith(text, ";")
                THEN <<"\n">> ELSE <<";", "\n">>)
    ELSE BlankLine

\* _add_line (tabs = 0)
AddLine(text, tab_offset) ==
    IF text # <<>> THEN Indent(tab_offset) \o text \o <<"\n">> ELSE BlankLine

\* _write_section ending without `self._tab_offset = old_tab`.
OffsetLeft(old_tab, tab_offset) == tab_offset

\* self._tab_offset = old_tab, the last statement of _write_section
RestoredOffset(old_tab, tab_offset) == old_tab

\* n times the character ch, written as the pieces ch, "*", n.
Repeat(ch, n) == <<ch, "*", ToString(n)>>

\* len(self._comment)
CommentLength(comment) ==
    CASE comment = "General" -> 7
      [] comment = "Implementations" -> 15
      [] comment = "Getters" -> 7
      [] comment = "Setters" -> 7

\* SectionComment.write: the blank line and the three lines of the divider.
SectionCommentLines(comment, tab_offset) ==
    LET line_size == LineWidth - (4 * tab_offset)
        pad_size == (line_size - (CommentLength(comment) + 2)) \div 2
        line == <<"/", "/">> \o Repeat("-", line_size)
        center_line ==
            <<"/", "/">> \o Repeat("#", pad_size) \o <<" ", comment, " ">>
                \o Repeat("#", pad_size)
                \o (IF (pad_size * 2) + 2 + CommentLength(comment) # line_size
                    THEN <<"#">> ELSE <<>>)
    IN  << BlankLine, AddLine(line, tab_offset), AddLine(center_line, tab_offset),
           AddLine(line, tab_offset) >>

\* BlockComment.write
BlockCommentLines(lines, tab_offset) ==
    IF lines # <<>>
    THEN << AddLine(<<"/", "**">>, tab_offset) >>
            \o [i \in DOMAIN lines |-> AddLine(<<" * ", lines[i]>>, tab_offset)]
            \o << AddLine(<<" *", "/">>, tab_offset) >>
    ELSE <<>>

\* JavaMethod._add_attributes
AttributeLines(attributes, tab_offset) ==
    IF attributes # <<>> THEN << AddLine(attributes, tab_offset) >> ELSE <<>>

\* The parameters joined by ", ".
RECURSIVE JoinParams(_, _)
JoinParams(param, i) ==
    IF i > Len(param) THEN <<>>
    ELSE param[i] \o (IF i # Len(param) THEN <<", ">> ELSE <<>>) \o JoinParams(param, i + 1)

\* JavaMethod._add_method_signature (public is always True)
MethodSignature(method) ==
    <<"public ">> \o (IF method.static THEN <<"static ">> ELSE <<>>)
        \o (IF ~IsNone(method.return_type) THEN Get(method.return_type) \o <<" ">> ELSE <<>>)
        \o method.name \o <<"(">> \o JoinParams(method.param, 1) \o <<")", " ", "{">>

\* JavaClass._add_class_definition
ClassDefinition(class) ==
    <<"public ">> \o (IF class.abstract THEN <<"abstract ">> ELSE <<>>)
        \o <<"class ", class.name>>
        \o (IF class.extensions # <<>> THEN <<" extends ">> \o class.extensions ELSE <<>>)
        \o <<" ", "{">>

\* write(file_lines, tab_offset) of every kind of section.  It yields the
\* node as the call leaves it (the _tab_offset of the node and of the nodes
\* under it) and file_lines with the lines appended.
RECURSIVE Write(_, _, _)

\* The loop of _write_section from the i-th child on.
RECURSIVE WriteLines(_, _, _)
WriteLines(node, file_lines, i) ==
    IF i > Len(node.sections) THEN [node |-> node, file_lines |-> file_lines]
    ELSE LET line == node.sections[i]
         IN  IF line.kind # "line"
             THEN LET w == Write(line, file_lines, node._tab_offset)
                  IN  WriteLines([node EXCEPT !.sections[i] = w.node], w.file_lines, i + 1)
             ELSE WriteLines(node,
                      Append(file_lines,
                          IF node._code_lines
                          THEN AddCodeLine(line.text, node._tab_offset)
                          ELSE AddLine(line.text, node._tab_offset)),
                      i + 1)

\* _write_section(tab_delta)
WriteSection(node, file_lines, tab_delta) ==
    LET old_tab == node._tab_offset
        w == WriteLines([node EXCEPT !._tab_offset = old_tab + tab_delta], file_lines, 1)
    IN  [node |-> [w.node EXCEPT !._tab_offset = RestoredOffset(old_tab, @)],
         file_lines |-> w.file_lines]

Write(node, file_lines, tab_offset) ==
    LET self == [node EXCEPT !._tab_offset = tab_offset]
    IN  CASE node.kind = "section" -> WriteSection(self, file_lines, 0)
          [] node.kind = "comment" ->
                [node |-> self,
                 file_lines |-> file_lines \o SectionCommentLines(self.comment, self._tab_offset)]
          [] node.kind = "method" ->
                LET head == file_lines \o << BlankLine >>
                                \o BlockCommentLines(self.comment, self._tab_offset)
                                \o AttributeLines(self.attributes, self._tab_offset)
                                \o << AddLine(MethodSignature(self), self._tab_offset) >>
                    w == WriteSection(self, head, 1)
                IN  [node |-> w.node,
                     file_lines |-> Append(w.file_lines, AddLine(<<"}">>, w.node._tab_offset))]
          [] node.kind = "class" ->
                LET head == file_lines
                                \o << BlankLine, AddLine(ClassDefinition(self), self._tab_offset),
                                      BlankLine >>
                    w == WriteSection(self, head, 1)
                IN  [node |-> w.node,
                     file_lines |-> Append(w.file_lines, AddLine(<<"}">>, w.node._tab_offset))]
          [] node.kind = "file" ->
                LET head == Append(file_lines,
                                AddCodeLine(<<"package ">> \o self.package, self._tab_offset))
                                \o (IF self.sections # <<>> THEN << BlankLine >> ELSE <<>>)
                    w == WriteSection(self, head, 0)
                    class == Write(w.node.javaClass, w.file_lines, tab_offset)
                IN  [node |-> [w.node EXCEPT !.javaClass = class.node],
                     file_lines |-> class.file_lines]

\* --------------------------------------------------- ClassGenerator._Keys
\* self.field_prefix
FieldPrefix(class_name) == <<class_name, "_Prefix">>

KeysAddField(section, class_name, field) ==
    Append(section,
        Line(<<"public static final String ">> \o field.key \o <<" = ">>
             \o FieldPrefix(class_name) \o <<" + \"", field.name, "\"">>))

\* add: _prefix_needed is set by add_field, which also appends to the section.
KeysAdd(class_name, section) ==
    IF section # <<>>
    THEN << Line(<<"private static final String ">> \o FieldPrefix(class_name)
                 \o <<" = \"", class_name, "_\"">>),
            Line(<<>>),
            Section(TRUE, section) >>
    ELSE << Section(TRUE, section) >>

\* ------------------------------------------- ClassGenerator._Definitions
\* add_virtual_field that passes, as the other sections' do.
DefinitionsAddVirtualFieldPass(section, field) == section

\* add_virtual_field: the placeholder comment of an inherited field.
DefinitionsAddVirtualField(section, field) ==
    Append(section, Line(<<"/", "/", " ", field.name>>))

DefinitionsAddField(section, field) ==
    Append(section,
        Line(<<"dataObjectSchema.add(new ",
               IF field.is_list THEN "ListDataField_Schema" ELSE "DataField_Schema", "<>(">>
             \o field.key \o <<", ">> \o field.type
             \o <<IF field.is_list THEN "List.class" ELSE ".class",
                  IF field.canBeNull THEN ", true))" ELSE "))">>))

\* self._section.append(""); method.append(self._section)
DefinitionsAdd(section) == Section(TRUE, Append(section, Line(<<>>)))

\* --------------------------------------------- ClassGenerator._Properties
DataCoreStrategies == {"static", "derived", "selfParent", "directDerived", "multiParentList"}

\* What add_field raises on an own field (None: nothing).  A field that has
\* properties, the editable flag or a dataCore reaches DividerComment(...),
\* a name java_code_generator does not define.
PropertiesAddFieldRaises(field) ==
    IF "properties" \in DOMAIN field /\ "attachedProperties" \notin DOMAIN field
    THEN Some("KeyError")
    ELSE IF "dataCore" \in DOMAIN field /\ DOMAIN field.dataCore \cap DataCoreStrategies = {}
    THEN Some("Exception")
    ELSE IF "properties" \in DOMAIN field \/ field.editable \/ "dataCore" \in DOMAIN field
    THEN Some("NameError")
    ELSE None

\* No own field added a sub-section: the section is empty and stays so.
PropertiesAdd == Section(TRUE, <<>>)

\* -------------------------------------------- ClassGenerator._Constructor
\* _method.param, set_line and _database_source of a new _Constructor.
NewConstructor == [param |-> <<>>, set_line |-> <<>>, database_source |-> None, raised |-> None]

\* add_field with the parameter appended before the avoid_constructor test.
ConstructorAddFieldParamAlways(cons, field) ==
    IF ~IsNone(cons.raised) THEN cons
    ELSE IF field.avoid_constructor
    THEN [cons EXCEPT !.param = Append(@, field.type \o <<" ", LowerFirst(field.name)>>)]
    ELSE [cons EXCEPT
            !.param = Append(@, field.type \o <<" ", LowerFirst(field.name)>>),
            !.set_line = Append(@, Line(<<"        , ">> \o field.key
                                        \o <<", ", LowerFirst(field.name)>>)),
            !.database_source = IF field.database_source THEN Some(field) ELSE @]

\* add_field that keeps the first database_source field it meets.
ConstructorAddFieldFirstSource(cons, field) ==
    IF ~IsNone(cons.raised) \/ field.avoid_constructor THEN cons
    ELSE IF {"key", "database_source"} \subseteq DOMAIN field
    THEN [cons EXCEPT
            !.param = Append(@, field.type \o <<" ", LowerFirst(field.name)>>),
            !.set_line = Append(@, Line(<<"        , ">> \o field.key
                                        \o <<", ", LowerFirst(field.name)>>)),
            !.database_source = IF field.database_source /\ IsNone(@) THEN Some(field) ELSE @]
    ELSE [cons EXCEPT !.raised = Some("KeyError")]

\* add_field; add_virtual_field calls it too.  A field without the key it
\* reads raises KeyError.
ConstructorAddField(cons, field) ==
    IF ~IsNone(cons.raised) \/ field.avoid_constructor THEN cons
    ELSE IF {"key", "database_source"} \subseteq DOMAIN field
    THEN [cons EXCEPT
            !.param = Append(@, field.type \o <<" ", LowerFirst(field.name)>>),
            !.set_line = Append(@, Line(<<"        , ">> \o field.key
                                        \o <<", ", LowerFirst(field.name)>>)),
            !.database_source = IF field.database_source THEN Some(field) ELSE @]
    ELSE [cons EXCEPT !.raised = Some("KeyError")]

ConstructorAddVirtualField(cons, field) == ConstructorAddField(cons, field)

\* add: the full constructor.
ConstructorAdd(class_name, cons) ==
    LET source == cons.database_source
        set_line == Section(FALSE, cons.set_line)
    IN  IF ~IsNone(source)
        THEN Method(<<class_name>>, None, FALSE, <<"Constructor">>, cons.param, FALSE,
                    << Line(<<"super(", LowerFirst(Get(source).name), ".getTrackingDatabase()">>),
                       set_line, Line(<<")", ";">>) >>)
        ELSE Method(<<class_name>>, None, FALSE, <<"Constructor">>,
                    <<<<"Database database">>>> \o cons.param, FALSE,
                    << Line(<<"super(database">>), set_line, Line(<<")", ";">>) >>)

\* --------------------------- ClassGenerator._Implements, _Getters, _Setters
ImplementsAddField(section, field) ==
    IF field.is_override
    THEN Append(section,
            [Method(<<"get", field.name>>, Some(field.type), FALSE, <<"@inheritDoc">>,
                    <<>>, TRUE, << Line(<<"return get(">> \o field.key \o <<")">>) >>)
                EXCEPT !.attributes = <<"@Override">>])
    ELSE section

GettersAddField(section, field) ==
    IF ~field.is_override
    THEN Append(section,
            Method(<<"get", field.name>>,
                   Some(IF field.is_list THEN <<"List<">> \o field.getType \o <<">">>
                        ELSE field.getType),
                   FALSE, <<>>, <<>>, TRUE,
                   << Line(<<"return get(">> \o field.key \o <<")">>) >>))
    ELSE section

SettersAddField(section, field) ==
    IF field.editable
    THEN Append(section,
            Method(<<"set", field.name>>, Some(<<"void">>), FALSE, <<>>,
                   << field.type \o <<" ", LowerFirst(field.name)>> >>, TRUE,
                   << Line(<<"set(">> \o field.key
                           \o <<", ", LowerFirst(field.name), ")">>) >>))
    ELSE section

\* add that appends the divider and the section even when it is empty.
MethodsAddAlways(comment, section) == << SectionComment(comment), Section(TRUE, section) >>

\* add of the three: the divider and the methods, when there are methods.
MethodsAdd(comment, section) ==
    IF section # <<>> THEN << SectionComment(comment), Section(TRUE, section) >> ELSE <<>>

\* ------------------------------------------------ ClassGenerator.generate
\* The list interface of a class with listDef.
ListDefSection(class_name) ==
    Section(FALSE,
        << Line(<<"public interface ", class_name, "List extends List<", class_name, "> ", "{">>),
           Line(<<"}">>),
           Line(<<>>) >>)

\* The toString method _add_general_methods builds.
ToStringMethod(text) ==
    [Method(<<"toString">>, Some(<<"String">>), FALSE, <<"@inheritDoc">>, <<>>, TRUE,
            << Line(text) >>)
        EXCEPT !.attributes = <<"@Override">>]

\* _add_general_methods: customToString, or else the first own field flagged
\* string_source.
GeneralMethods(json) ==
    LET sources == SelectSeq(json.fields, LAMBDA f : f.string_source)
        section ==
            IF "customToString" \in DOMAIN json
            THEN << ToStringMethod(<<"return ">> \o json.customToString) >>
            ELSE IF sources # <<>>
            THEN << ToStringMethod(<<"return get", sources[1].name, "()">>) >>
            ELSE <<>>
    IN  MethodsAdd("General", section)

\* _add_min_constructor
MinConstructor(class_name) ==
    Method(<<class_name>>, None, FALSE, <<"Constructor">>,
           << <<"Database database">>, <<"Object... args">> >>, TRUE,
           << Line(<<"super(database, args)">>) >>)

\* A registration method closed the same way for every class.
SchemaReturnFinalise(class_name, abstract) ==
    Line(<<"return dataObjectSchema.finaliseContainer(", class_name, ".class)">>)

\* The last statement of the registration method.
SchemaReturn(class_name, abstract) ==
    IF abstract
    THEN Line(<<"return dataObjectSchema.endLayer(", class_name, ".class)">>)
    ELSE Line(<<"return dataObjectSchema.finaliseContainer(", class_name, ".class)">>)

\* _add_schema_method
SchemaMethod(class_name, json, definitions) ==
    Method(<<"getDataObjectSchema">>, Some(<<"DataObject_Schema">>), TRUE,
           <<"Get all the fields for this object">>, <<>>, TRUE,
           << Line(<<"DataObject_Schema dataObjectSchema = ", json.extends,
                     ".getDataObjectSchema()">>),
              Line(<<>>),
              DefinitionsAdd(definitions),
              PropertiesAdd,
              SchemaReturn(class_name, json.abstract) >>)

\* for field in self._full_fields: an own field goes to every section's
\* add_field, an inherited one to every section's add_virtual_field.
RECURSIVE VisitFields(_, _, _, _)
VisitFields(acc, full, own, i) ==
    IF i > Len(full) \/ ~IsNone(acc.raised) THEN acc
    ELSE LET field == full[i]
         IN  IF In(field, own)
             THEN LET props == PropertiesAddFieldRaises(field)
                      cons == ConstructorAddField(acc.constructor, field)
                  IN  VisitFields(
                        [class_name |-> acc.class_name,
                         keys |-> KeysAddField(acc.keys, acc.class_name, field),
                         definitions |-> DefinitionsAddField(acc.definitions, field),
                         constructor |-> cons,
                         implements |-> ImplementsAddField(acc.implements, field),
                         getters |-> GettersAddField(acc.getters, field),
                         setters |-> SettersAddField(acc.setters, field),
                         raised |-> IF ~IsNone(props) THEN props ELSE cons.raised],
                        full, own, i + 1)
             ELSE LET cons == ConstructorAddVirtualField(acc.constructor, field)
                  IN  VisitFields(
                        [acc EXCEPT
                            !.definitions = DefinitionsAddVirtualField(@, field),
                            !.constructor = cons,
                            !.raised = cons.raised],
                        full, own, i + 1)

\* The sections after the loop over the full field list.
Visited(c) ==
    VisitFields([class_name |-> c, keys |-> <<>>, definitions |-> <<>>,
                 constructor |-> NewConstructor, implements |-> <<>>, getters |-> <<>>,
                 setters |-> <<>>, raised |-> None],
                FullFields(c), Fields(c), 1)

\* The parts generate() appends to the class, each None when it is left out.
ClassParts(c, v) ==
    [list_def |-> IF Json(c).listDef THEN Some(ListDefSection(c)) ELSE None,
     keys |-> KeysAdd(c, v.keys),
     schema_method |-> SchemaMethod(c, Json(c), v.definitions),
     min_constructor |->
        IF v.constructor.set_line # <<>> THEN Some(MinConstructor(c)) ELSE None,
     constructor |->
        IF ~Json(c).abstract THEN Some(ConstructorAdd(c, v.constructor)) ELSE None,
     general |-> GeneralMethods(Json(c)),
     implements |-> MethodsAdd("Implementations", v.implements),
     getters |-> MethodsAdd("Getters", v.getters),
     setters |-> MethodsAdd("Setters", v.setters)]

\* The class body generate() assembles: its parts, and `sections`, the nodes
\* in the order java_class.append receives them.
ClassBody(c, v) ==
    LET parts == ClassParts(c, v)
    IN  [sections |->
            parts.list_def \o parts.keys \o << parts.schema_method >>
                \o parts.min_constructor \o parts.constructor \o parts.general
                \o parts.implements \o parts.getters \o parts.setters]
        @@ parts

\* self.file of an assembler
File(c) == Get(file[c])

\* "Populate the header of the file": the class line's extends and abstract.
HeaderSet(java_file, c) ==
    [java_file EXCEPT !.javaClass.extensions = <<Json(c).extends>>,
                      !.javaClass.abstract = Json(c).abstract]

\* "Add all code": the nodes are appended to the class of self.file.
CodeAdded(java_file, body) ==
    [java_file EXCEPT !.javaClass.sections = @ \o body.sections]

\* The rest of generate() after the list is resolved: the sections visit the
\* fields and the class body is assembled; the loop keeps the document.
GenerateSections ==
    /\ pc = "sections"
    /\ LET c == Generating
           v == Visited(c)
           body == ClassBody(c, v)
       IN  IF ~IsNone(v.raised)
           THEN /\ GenerateRaised(Get(v.raised))
                /\ file' = [file EXCEPT ![c] = Some(HeaderSet(File(c), c))]
                /\ UNCHANGED to_write
           ELSE /\ to_write' = [to_write EXCEPT ![c] = Some(c)]
                /\ file' = [file EXCEPT
                                ![c] = Some(CodeAdded(HeaderSet(File(c), c), body))]
                /\ pc' = AfterGenerate(c)
                /\ UNCHANGED <<stack, resumed, error>>
    /\ UNCHANGED <<class_dict, java_files, follow_field, full_fields, heap,
                   returned, written, files, rewrite, run>>

\* write_file(java_file.java_path, to_write[java_file]) for the next
\* assembler of java_files; a missing document is an uncaught KeyError.
WriteFile ==
    /\ pc = "write"
    /\ LET c == java_files[Len(written) + 1]
       IN  IF IsNone(to_write[c])
           THEN /\ pc' = "aborted"
                /\ UNCHANGED <<written, file, files>>
           ELSE LET w == Write(File(c), <<>>, 0)
                IN  /\ written' = Append(written, c)
                    /\ file' = [file EXCEPT ![c] = Some(w.node)]
                    /\ files' = [files EXCEPT ![c] = Some(w.file_lines)]
                    /\ pc' = IF Len(written') = Len(java_files) THEN "done" ELSE "write"
    /\ UNCHANGED <<class_dict, java_files, follow_field, full_fields, heap, stack,
                   resumed, returned, to_write, error, rewrite, run>>

\* The documents generate() has returned in this run.
IsGenerated(c) == ~IsNone(to_write[c])

\* A caller writes a document that write_file has written once more, into a
\* fresh list and with the same offset.
WriteAgain ==
    /\ \E i \in DOMAIN written :
        LET c == written[i]
            w == Write(File(c), <<>>, 0)
        IN  /\ IsNone(rewrite[c])
            /\ rewrite' = [rewrite EXCEPT ![c] = Some(w.file_lines)]
            /\ file' = [file EXCEPT ![c] = Some(w.node)]
    /\ UNCHANGED <<pc, class_dict, java_files, follow_field, full_fields, heap, stack,
                   resumed, returned, to_write, written, error, files, run>>

\* How many times generate() has added its code to the class of an assembler.
Generations(c) ==
    Len(SelectSeq(File(c).javaClass.sections,
                  LAMBDA n : n.kind = "method" /\ n.name = <<"getDataObjectSchema">>))

\* A caller calls generate() once more on an assembler whose document the
\* loop holds: the memoised list is returned, the header is set again, and
\* the code is added to the same self.file, which is the document returned.
GenerateAgain ==
    /\ pc \in {"generate", "write", "done"}
    /\ \E c \in Classes :
        /\ IsGenerated(c)
        /\ Generations(c) < MaxGenerations
        /\ file' = [file EXCEPT
                        ![c] = Some(CodeAdded(HeaderSet(File(c), c),
                                              ClassBody(c, Visited(c))))]
    /\ UNCHANGED <<pc, class_dict, java_files, follow_field, full_fields, heap, stack,
                   resumed, returned, to_write, written, error, files, rewrite, run>>

\* parse_all_files is started again over the directory the last run wrote to:
\* new assemblers, the same files on disk.
Rerun ==
    /\ pc = "done"
    /\ written # <<>>
    /\ run < MaxRuns
    /\ pc' = "discover"
    /\ class_dict' = [c \in Classes |-> None]
    /\ java_files' = <<>>
    /\ follow_field' = [a \in Assemblers |-> IF a = Root THEN Some(RootFollowField) ELSE None]
    /\ full_fields' = [a \in Assemblers |-> a]
    /\ heap' = [a \in Assemblers |-> IF a = Root THEN RootFields ELSE <<>>]
    /\ returned' = [a \in Assemblers |-> None]
    /\ to_write' = [c \in Classes |-> None]
    /\ written' = <<>>
    /\ file' = [c \in Classes |-> None]
    /\ rewrite' = [c \in Classes |-> None]
    /\ run' = run + 1
    /\ UNCHANGED <<stack, resumed, error, files>>

\* ------------------------------------------------------ specifications
\* Batches that vary the hierarchy: any parent, cycles, missing parents.
Next ==
    \/ Discover(ResolveSchemas)
    \/ EndDiscovery
    \/ GenerateCall
    \/ AskParent
    \/ Return
    \/ GenerateSections
    \/ WriteFile

Spec == Init /\ [][Next]_vars

\* Batches that vary the fields and the abstract flag.
NextGenerate ==
    \/ Discover(GenerateSchemas)
    \/ EndDiscovery
    \/ GenerateCall
    \/ AskParent
    \/ Return
    \/ GenerateSections
    \/ WriteFile

SpecGenerate == Init /\ [][NextGenerate]_vars

\* Batches of one class that vary the parts of the class body; the file
\* written may be written a second time.
NextBody ==
    \/ Discover(BodySchemas)
    \/ EndDiscovery
    \/ GenerateCall
    \/ AskParent
    \/ Return
    \/ GenerateSections
    \/ WriteFile
    \/ WriteAgain

SpecBody == Init /\ [][NextBody]_vars

\* Runs over a directory that may hold A.java, and runs over what they wrote.
NextRerun ==
    \/ Discover(RerunSchemas)
    \/ EndDiscovery
    \/ GenerateCall
    \/ AskParent
    \/ Return
    \/ GenerateSections
    \/ WriteFile
    \/ Rerun

SpecRerun == InitRerun /\ [][NextRerun]_vars

\* Batches in which generate() may be called again on an assembler.
NextRegenerate ==
    \/ Discover(BodySchemas)
    \/ EndDiscovery
    \/ GenerateCall
    \/ AskParent
    \/ Return
    \/ GenerateSections
    \/ WriteFile
    \/ GenerateAgain

SpecRegenerate == Init /\ [][NextRegenerate]_vars

\* ------------------------------------------------------------ properties
Parent(c) == Json(c).extends

\* A class whose get_full_field_list has assigned its follow field and list.
ResolvedClass(c) == c \in Classes /\ Registered(c) /\ ~IsNone(follow_field[c])

\* The last element of a non-empty list.
Last(list) == list[Len(list)]

\* `list` with `own` put in, in order, right after the element `anchor`.
SpliceAfter(list, anchor, own) ==
    SubSeq(list, 1, Index(list, anchor)) \o own
        \o SubSeq(list, Index(list, anchor) + 1, Len(list))

\* C1 as stated: a resolved class's full field list is its parent's with its
\* own fields spliced in right after the parent's own last-declared field.
C1_AfterParentsLastField ==
    \A c \in Classes :
        ResolvedClass(c) /\ Fields(Parent(c)) # <<>> =>
            FullFields(c) =
                SpliceAfter(FullFields(Parent(c)), Last(Fields(Parent(c))), Fields(c))

\* C1 (amended): a resolved class's full field list is its parent's with its
\* own fields spliced in, in declaration order, right after the parent's follow
\* field, and the class's follow field is its own last field, or the parent's
\* follow field when it declares none; the root's follow field is ID, its
\* first field.
C1_AfterParentsFollowField ==
    /\ follow_field[Root] = Some(RootFields[1])
    /\ RootFields[1].name = "ID"
    /\ \A c \in Classes :
        ResolvedClass(c) =>
            /\ FullFields(c) =
                SpliceAfter(FullFields(Parent(c)), Get(follow_field[Parent(c)]), Fields(c))
            /\ follow_field[c] =
                IF Fields(c) # <<>> THEN Some(Last(Fields(c))) ELSE follow_field[Parent(c)]

\* A class with two own fields resolved under a class without own fields that
\* is itself under a class with own fields.
C1_Witness ==
    \E c \in Classes :
        /\ ResolvedClass(c) /\ Len(Fields(c)) = 2
        /\ Parent(c) \in Classes /\ Fields(Parent(c)) = <<>>
        /\ Parent(Parent(c)) \in Classes /\ Fields(Parent(Parent(c))) # <<>>

\* C2: once a call of get_full_field_list on an assembler has returned, every
\* later call returns the same pair, and no later call on it calls the parent's
\* get_full_field_list.
C2_Memoised ==
    [][\A a \in Assemblers :
        ~IsNone(returned[a]) =>
            /\ returned'[a] = returned[a]
            /\ ~(pc = "resolve" /\ stack[Len(stack)] = a /\ Len(stack') > Len(stack))]_vars

\* The first assembler of the batch declares no field, was generated, and a
\* class under it was resolved afterwards by a second call on it.
C2_Witness ==
    \E a, c \in Classes :
        /\ java_files # <<>> /\ java_files[1] = a
        /\ Fields(a) = <<>> /\ ~IsNone(to_write[a])
        /\ c # a /\ ResolvedClass(c) /\ Parent(c) = a

\* The class that declared a field of a full field list (the root's have no key).
DeclaredBy(field) == IF "key" \in DOMAIN field THEN field.key[1] ELSE Root

\* Whether b is a or one of a's ancestors, looking at most n parents up.
RECURSIVE SelfOrAncestor(_, _, _)
SelfOrAncestor(b, a, n) ==
    \/ b = a
    \/ n > 0 /\ a \in Classes /\ Registered(a) /\ SelfOrAncestor(b, Parent(a), n - 1)

\* C3: the list cached in an assembler holds only fields declared by the
\* assembler or its ancestors, however many other classes were resolved
\* since and whatever they inserted into the lists they received; the root's
\* list stays ID, Children.
C3_AncestorListsUntouched ==
    /\ FullFields(Root) = RootFields
    /\ \A a \in Classes :
        ResolvedClass(a) =>
            \A i \in DOMAIN FullFields(a) :
                SelfOrAncestor(DeclaredBy(FullFields(a)[i]), a, Cardinality(Classes))

\* Two classes with own fields resolved under one resolved parent with own fields.
C3_Witness ==
    \E p, c1, c2 \in Classes :
        /\ c1 # c2 /\ c1 # p /\ c2 # p
        /\ ResolvedClass(p) /\ ResolvedClass(c1) /\ ResolvedClass(c2)
        /\ Parent(c1) = p /\ Parent(c2) = p
        /\ Fields(p) # <<>> /\ Fields(c1) # <<>> /\ Fields(c2) # <<>>

\* The full field list of an assembler as the schemas alone determine it.
RECURSIVE ExpectedFollow(_)
ExpectedFollow(a) ==
    IF a = Root THEN RootFields[1]
    ELSE IF Fields(a) # <<>> THEN Last(Fields(a))
    ELSE ExpectedFollow(Parent(a))

RECURSIVE ExpectedFullFields(_)
ExpectedFullFields(a) ==
    IF a = Root THEN RootFields
    ELSE SpliceAfter(ExpectedFullFields(Parent(a)), ExpectedFollow(Parent(a)), Fields(a))

\* C4: the full field list of every generated class is the one its schema and
\* its ancestors' schemas determine, in whatever order the classes were
\* discovered and generated.
C4_OrderIndependent ==
    \A c \in Classes :
        ~IsNone(to_write[c]) => FullFields(c) = ExpectedFullFields(c)

\* A class with own fields was discovered and generated before its parent, and
\* another class of the same parent after it.
C4_Witness ==
    \E i, j, k \in DOMAIN java_files :
        /\ i < j /\ j < k
        /\ Parent(java_files[i]) = java_files[j]
        /\ Parent(java_files[k]) = java_files[j]
        /\ Fields(java_files[i]) # <<>> /\ Fields(java_files[j]) # <<>>
        /\ Fields(java_files[k]) # <<>>
        /\ \A n \in {i, j, k} : ~IsNone(to_write[java_files[n]])

\* C5: once parse_all_files has caught an exception, of a constructor or of
\* generate(), no file is written, whatever was generated before.
C5_NoFileAfterError == ~IsNone(error) => written = <<>>

\* generate() raised after the document of another class had been generated.
C5_Witness ==
    /\ pc = "aborted" /\ ~IsNone(error)
    /\ \E c \in Classes : ~IsNone(to_write[c])

\* C6 as stated: no document exists before the full field list of every class
\* of the batch is resolved.
C6_ResolvedBeforeAnyDocument ==
    (\E c \in Classes : ~IsNone(to_write[c])) =>
        \A i \in DOMAIN java_files : ResolvedClass(java_files[i])

\* C6 (amended): a class's document is generated only after its own full field
\* list is resolved, and no file is written before every class of the batch is
\* resolved and has its document.
C6_ResolvedBeforeAnyFile ==
    /\ \A c \in Classes : ~IsNone(to_write[c]) => ResolvedClass(c)
    /\ written # <<>> =>
        \A i \in DOMAIN java_files :
            ResolvedClass(java_files[i]) /\ ~IsNone(to_write[java_files[i]])

\* A file of a batch of three classes is written.
C6_Witness == written # <<>> /\ Len(java_files) = 3

\* C7 as stated: a guard stops get_full_field_list from being entered again on
\* a class it is already resolving.
C7_CycleGuarded ==
    \A i, j \in DOMAIN stack : i # j => stack[i] # stack[j]

\* ----------------------------------------------- the generated constructors
\* What add_field appends for a field: its parameter and its assignment line.
ParamOf(field) == field.type \o <<" ", LowerFirst(field.name)>>
AssignmentOf(field) ==
    Line(<<"        , ">> \o field.key \o <<", ", LowerFirst(field.name)>>)

DatabaseParam == <<"Database database">>

\* The parameters of a full constructor without the explicit database one.
FieldParams(method) ==
    IF method.param # <<>> /\ method.param[1] = DatabaseParam
    THEN Tail(method.param) ELSE method.param

Generated(c) == c \in Classes /\ ~IsNone(to_write[c])
\* What a node of the class body is.
PartOf(node, c) ==
    CASE node.kind = "line" -> IF node.text = <<>> THEN "blank" ELSE "prefix"
      [] node.kind = "comment" -> node.comment
      [] node.kind = "section" -> IF node.code_lines THEN "section" ELSE "listDef"
      [] node.kind = "method" ->
            IF node.name = <<"getDataObjectSchema">> THEN "registration"
            ELSE IF node.name = <<c>> /\ node.code_lines THEN "minimal constructor"
            ELSE IF node.name = <<c>> THEN "full constructor"
            ELSE "method"

\* The nodes of one sort in the class of the document, in order.
NodesOf(c, part) ==
    SelectSeq(File(c).javaClass.sections, LAMBDA node : PartOf(node, c) = part)

\* The first node of one sort in the class of the document, None when the
\* document has none.
BodyPart(c, part) ==
    LET nodes == NodesOf(c, part) IN IF nodes = <<>> THEN None ELSE Some(nodes[1])
Avoided(field) == field.avoid_constructor

\* C8: in the full constructor every parameter and every line of the positional
\* assignment list is that of a field of the full field list not flagged
\* avoid_constructor, and the key of no flagged field occurs in the list; the
\* minimal constructor takes the database and the argument array only.
C8_AvoidedFieldsStayOut ==
    \A c \in Classes :
        Generated(c) =>
            /\ ~IsNone(BodyPart(c, "full constructor")) =>
                LET method == Get(BodyPart(c, "full constructor"))
                    params == FieldParams(method)
                    lines == method.sections[2].sections
                    full == FullFields(c)
                IN  /\ Len(params) = Len(lines)
                    /\ \A i \in DOMAIN lines :
                        \E j \in DOMAIN full :
                            /\ ~Avoided(full[j])
                            /\ lines[i] = AssignmentOf(full[j])
                            /\ params[i] = ParamOf(full[j])
                    /\ \A j \in DOMAIN full :
                        Avoided(full[j]) /\ "key" \in DOMAIN full[j] =>
                            \A i \in DOMAIN lines :
                                 SubSeq(lines[i].text, 2, 4) # full[j].key
            /\ ~IsNone(BodyPart(c, "minimal constructor")) =>
                Get(BodyPart(c, "minimal constructor")).param = <<DatabaseParam, <<"Object... args">>>>

\* A concrete class generated with an own flagged field, an inherited flagged
\* field of a class, and a field that is not flagged.
C8_Witness ==
    \E c \in Classes :
        /\ Generated(c) /\ ~IsNone(BodyPart(c, "full constructor"))
        /\ \E i \in DOMAIN Fields(c) : Avoided(Fields(c)[i])
        /\ \E j \in DOMAIN FullFields(c) :
            /\ Avoided(FullFields(c)[j])
            /\ DeclaredBy(FullFields(c)[j]) \notin {c, Root}
        /\ \E j \in DOMAIN FullFields(c) : ~Avoided(FullFields(c)[j])

\* The positions of the full field list flagged database_source.
SourcePositions(c) ==
    {j \in DOMAIN FullFields(c) :
        "database_source" \in DOMAIN FullFields(c)[j] /\ FullFields(c)[j].database_source}

\* Those of them that the constructor takes as a parameter.
UsableSourcePositions(c) == {j \in SourcePositions(c) : ~Avoided(FullFields(c)[j])}

SuperFromField(field) ==
    Line(<<"super(", LowerFirst(field.name), ".getTrackingDatabase()">>)
SuperFromDatabase == Line(<<"super(database">>)

Maximum(set) == CHOOSE n \in set : \A m \in set : m <= n

\* C9 as stated: a concrete class with a field flagged database_source has no
\* database parameter and forwards through that field; every other concrete
\* class takes the database first and forwards it.
C9_AnyFlaggedField ==
    \A c \in Classes :
        Generated(c) /\ ~IsNone(BodyPart(c, "full constructor")) =>
            LET method == Get(BodyPart(c, "full constructor"))
            IN  IF SourcePositions(c) # {}
                THEN /\ \A i \in DOMAIN method.param : method.param[i] # DatabaseParam
                     /\ \E j \in SourcePositions(c) :
                            method.sections[1] = SuperFromField(FullFields(c)[j])
                ELSE /\ method.param[1] = DatabaseParam
                     /\ method.sections[1] = SuperFromDatabase

\* C9 (amended): a concrete class whose full field list has a field flagged
\* database_source and not avoid_constructor has no database parameter and
\* forwards through the last such field of the list; every other concrete
\* class takes the database first and forwards it.
C9_LastUsableFlaggedField ==
    \A c \in Classes :
        Generated(c) /\ ~IsNone(BodyPart(c, "full constructor")) =>
            LET method == Get(BodyPart(c, "full constructor"))
            IN  IF UsableSourcePositions(c) # {}
                THEN /\ \A i \in DOMAIN method.param : method.param[i] # DatabaseParam
                     /\ method.sections[1] =
                            SuperFromField(FullFields(c)[Maximum(UsableSourcePositions(c))])
                ELSE /\ method.param[1] = DatabaseParam
                     /\ method.sections[1] = SuperFromDatabase

\* A concrete class generated with two usable flagged fields of different
\* names and a flagged field kept out of the constructor.
C9_Witness ==
    \E c \in Classes :
        /\ Generated(c) /\ ~IsNone(BodyPart(c, "full constructor"))
        /\ SourcePositions(c) # UsableSourcePositions(c)
        /\ \E i, j \in UsableSourcePositions(c) :
            FullFields(c)[i].name # FullFields(c)[j].name

\* ------------------------------------------------ the registration method
TerminalCalls ==
    {"return dataObjectSchema.endLayer(", "return dataObjectSchema.finaliseContainer("}

\* Whether a node of the method is a terminal call, or a section that holds one.
HoldsTerminalCall(node) ==
    IF node.kind = "line"
    THEN node.text # <<>> /\ node.text[1] \in TerminalCalls
    ELSE \E i \in DOMAIN node.sections :
            /\ node.sections[i].kind = "line"
            /\ node.sections[i].text # <<>>
            /\ node.sections[i].text[1] \in TerminalCalls

\* C10: the last statement of the registration method is the endLayer call of
\* the class when it is abstract and its finaliseContainer call when it is
\* concrete, and nothing before it is either call.
C10_OneTerminalCall ==
    \A c \in Classes :
        Generated(c) =>
            LET nodes == Get(BodyPart(c, "registration")).sections
            IN  /\ nodes # <<>>
                /\ Last(nodes) =
                    Line(<<IF Json(c).abstract
                           THEN "return dataObjectSchema.endLayer("
                           ELSE "return dataObjectSchema.finaliseContainer(",
                           c, ".class)">>)
                /\ \A i \in 1..(Len(nodes) - 1) : ~HoldsTerminalCall(nodes[i])

\* An abstract class and a concrete class under it, both generated.
C10_Witness ==
    \E a, c \in Classes :
        /\ Generated(a) /\ Generated(c)
        /\ Json(a).abstract /\ ~Json(c).abstract /\ Parent(c) = a

\* ------------------------------------------------------ the files written
\* A class whose file write_file has written in this run.
Written(c) == c \in Classes /\ In(c, written)

\* The offset _write_section adds for the children of a node.
TabDelta(node) == IF node.kind \in {"method", "class"} THEN 1 ELSE 0

\* Whether a node written at tab_offset, and every section under it, holds the
\* offset its write() was given.
RECURSIVE OffsetsAre(_, _)
OffsetsAre(node, tab_offset) ==
    /\ node._tab_offset = tab_offset
    /\ \A i \in DOMAIN node.sections :
        node.sections[i].kind # "line" =>
            OffsetsAre(node.sections[i], tab_offset + TabDelta(node))
    /\ node.kind = "file" => OffsetsAre(node.javaClass, tab_offset)

\* A node with the offsets of a node no write() has touched.
RECURSIVE Unwritten(_)
Unwritten(node) ==
    IF node.kind = "line" THEN node
    ELSE LET reset == [node EXCEPT
                        !._tab_offset = 0,
                        !.sections = [i \in DOMAIN node.sections |->
                                        Unwritten(node.sections[i])]]
         IN  IF node.kind = "file"
             THEN [reset EXCEPT !.javaClass = Unwritten(node.javaClass)]
             ELSE reset

\* C11: writing a document leaves the children of every node as generate()
\* built them and every node's offset at the value its write() was given (the
\* offset raised for the nested sections is restored), and writing it again
\* into a fresh list with the same offset gives the same lines.
C11_WriteRepeatable ==
    \A c \in Classes :
        Written(c) =>
            /\ Unwritten(File(c).javaClass).sections = ClassBody(c, Visited(c)).sections
            /\ OffsetsAre(File(c), 0)
            /\ ~IsNone(rewrite[c]) => Get(rewrite[c]) = Get(files[c])

\* A concrete class with a list interface, a constructor that takes a field
\* and a toString method was written twice.
C11_Witness ==
    \E c \in Classes :
        /\ Written(c) /\ ~IsNone(rewrite[c])
        /\ ~IsNone(BodyPart(c, "listDef"))
        /\ ~IsNone(BodyPart(c, "full constructor"))
        /\ Get(BodyPart(c, "full constructor")).sections[2].sections # <<>>
        /\ NodesOf(c, "General") # <<>>

\* The lines write() gives for a document.
Serialised(java_file) == Write(java_file, <<>>, 0).file_lines

\* The document of an assembler as its first generate() call left it: every
\* call appends as many nodes as the first.
GeneratedOnce(c) ==
    [File(c) EXCEPT
        !.javaClass.sections = SubSeq(@, 1, Len(@) \div Generations(c))]

\* C12 as stated: however many times generate() was called on an assembler,
\* its document serialises to the lines it serialised to after the first call.
C12_GenerateIdempotent ==
    \A c \in Classes :
        IsGenerated(c) => Serialised(File(c)) = Serialised(GeneratedOnce(c))

\* ---------------------------------------------------------- the file header
\* The texts of the import block an assembler holds.
ImportBlock(c) == [i \in DOMAIN File(c).sections |-> File(c).sections[i].text]

\* A written line without its terminator.
Unterminated(line) == SubSeq(line, 1, Len(line) - 1)

PackageLine == <<"package ">> \o Package \o <<";", "\n">>

IsClassDeclaration(line) ==
    /\ Len(line) >= 3 /\ line[1] = "public " /\ line[Len(line)] = "\n"
    /\ \E i \in DOMAIN line : line[i] = "class "

\* Whether a file starts with the package line, one blank line, the lines of
\* the block, one blank line and the class declaration, or, for an empty
\* block, with the package line, one blank line and the class declaration.
HasHeader(lines, block) ==
    LET n == Len(block)
    IN  /\ Len(lines) >= n + 4
        /\ lines[1] = PackageLine
        /\ lines[2] = BlankLine
        /\ \A i \in 1..n : Unterminated(lines[2 + i]) = block[i]
        /\ IF n = 0 THEN IsClassDeclaration(lines[3])
           ELSE /\ block[1] # <<>> /\ block[n] # <<>>
                /\ lines[n + 3] = BlankLine
                /\ IsClassDeclaration(lines[n + 4])

\* C13: in a run over the files a run has written, the import block an
\* assembler retains from its file is the block that file holds between the
\* blank line after the package line and the blank line before the class
\* declaration, and the file it writes has the same shape with the same block;
\* without imports the file starts with the package line, one blank line and
\* the class declaration.
C13_HeaderFixedPoint ==
    \A c \in Classes :
        run > 1 /\ Registered(c) => HasHeader(Get(files[c]), ImportBlock(c))

\* A second run wrote a file whose import block has two imports and a blank
\* line between them.
C13_Witness ==
    \E c \in Classes :
        /\ run > 1 /\ Written(c)
        /\ Len(ImportBlock(c)) >= 3
        /\ \E i \in DOMAIN ImportBlock(c) : ImportBlock(c)[i] = <<>>

\* -------------------------------------------------------- dataCore fields
\* Whether a field asks for wiring in the registration method.
HasWiring(field) ==
    \/ "properties" \in DOMAIN field
    \/ "editable" \in DOMAIN field /\ field.editable
    \/ "dataCore" \in DOMAIN field

\* The own fields of a class that ask for wiring, every dataCore among them
\* naming a strategy _Properties knows.
WiredFields(c) == SelectSeq(Fields(c), HasWiring)
KnownWiring(c) ==
    \A i \in DOMAIN Fields(c) :
        "dataCore" \in DOMAIN Fields(c)[i] =>
            DOMAIN Fields(c)[i].dataCore \cap DataCoreStrategies # {}

\* C14 as stated: generate() on a class with own fields that ask for wiring
\* ends without error, and the registration method of the class holds one
\* sub-section for each of these fields.
C14_WiringGenerated ==
    \A c \in Classes :
        Registered(c) /\ WiredFields(c) # <<>> /\ KnownWiring(c) =>
            /\ ~(error = Some("NameError") /\ Generating = c)
            /\ IsGenerated(c) =>
                Len(Get(BodyPart(c, "registration")).sections[4].sections)
                    = Len(WiredFields(c))

\* The flags the schema files of the batches give their dataCore fields.
FieldKinds ==
    {PlainField, SourceField, SourceAvoidField, StaticField, UnknownCoreField,
     ListTypeField, UntypedField, StringSourceField}
FlaggedInSchema(field) ==
    \E k \in FieldKinds :
        /\ "dataCore" \in DOMAIN k /\ k.dataCore = field.dataCore
        /\ "avoid_constructor" \in DOMAIN k /\ k.avoid_constructor

\* C15 as stated: a dataCore field whose schema does not flag it
\* avoid_constructor is a parameter of the full constructor of every concrete
\* class that has it in its full field list, and has its assignment line.
C15_DataCoreFieldsInConstructor ==
    \A c \in Classes :
        IsGenerated(c) /\ ~IsNone(BodyPart(c, "full constructor")) =>
            LET method == Get(BodyPart(c, "full constructor"))
                full == FullFields(c)
            IN  \A j \in DOMAIN full :
                    "dataCore" \in DOMAIN full[j] /\ ~FlaggedInSchema(full[j]) =>
                        /\ In(full[j].type \o <<" ", LowerFirst(full[j].name)>>, method.param)
                        /\ In(Line(<<"        , ">> \o full[j].key
                                   \o <<", ", LowerFirst(full[j].name)>>),
                              method.sections[2].sections)

\* ------------------------------------------------------ the retained imports
\* The lines parse_file hands to process_existing_file.
ReadLines(c) == [i \in DOMAIN Get(files[c]) |-> Rstrip(Get(files[c])[i])]

Least(set) == CHOOSE n \in set : \A m \in set : n <= m

\* The position of the first import line (0: none), and the position of the
\* first line after it that is neither an import nor blank (none: past the end).
FirstImport(lines) ==
    IF \E i \in DOMAIN lines : IsImport(lines[i])
    THEN Least({i \in DOMAIN lines : IsImport(lines[i])})
    ELSE 0
BlockEnd(lines) ==
    Least({i \in (FirstImport(lines) + 1)..Len(lines) :
                ~IsImport(lines[i]) /\ lines[i] # <<>>}
          \cup {Len(lines) + 1})

\* The last import line before the end of the block.
LastImport(lines) ==
    Maximum({i \in 1..(BlockEnd(lines) - 1) : IsImport(lines[i])})

\* The import lines from position i up to the end of the block, each after
\* one blank line when the line before it is blank.
RECURSIVE SpacedImports(_, _)
SpacedImports(lines, i) ==
    IF i >= BlockEnd(lines) THEN <<>>
    ELSE (IF ~IsImport(lines[i]) THEN <<>>
          ELSE IF i > FirstImport(lines) /\ lines[i - 1] = <<>> THEN << <<>>, lines[i] >>
          ELSE << lines[i] >>)
         \o SpacedImports(lines, i + 1)

\* An assembler built from a .java file that this run has not overwritten.
BuiltFromFile(c) == c \in Classes /\ Registered(c) /\ ~Written(c) /\ ~IsNone(files[c])

\* C16 as stated: the retained block is the prior file's lines from its first
\* import to the last import of the first block, blank lines and all.
C16_BlankLinesKept ==
    \A c \in Classes :
        BuiltFromFile(c) =>
            ImportBlock(c) =
                IF FirstImport(ReadLines(c)) = 0 THEN <<>>
                ELSE SubSeq(ReadLines(c), FirstImport(ReadLines(c)), LastImport(ReadLines(c)))

\* C16 (amended): the retained block is the import lines of the first block
\* of the prior file, in order, with one blank line before each import that
\* follows one or more blank lines of the block, and no blank line after the
\* last; the lines before the first import are skipped, the block ends at the
\* first line after it that is neither an import nor blank, and no import
\* after that line is retained.
C16_OneBlankLineKept ==
    \A c \in Classes :
        BuiltFromFile(c) =>
            ImportBlock(c) =
                IF FirstImport(ReadLines(c)) = 0 THEN <<>>
                ELSE SpacedImports(ReadLines(c), FirstImport(ReadLines(c)))

\* An assembler built from a file with two imports and two blank lines
\* between them.
C16_Witness ==
    \E c \in Classes :
        /\ BuiltFromFile(c) /\ Len(ReadLines(c)) = 4
        /\ IsImport(ReadLines(c)[1]) /\ ReadLines(c)[2] = <<>>
        /\ ReadLines(c)[3] = <<>> /\ IsImport(ReadLines(c)[4])
        /\ Len(ImportBlock(c)) = 3

\* ------------------------------------------------------------ the leaf lines
\* The sections the generator marks raw, and the sections write() takes for
\* statement mode.
MarkedRaw(node) == "code_lines" \in DOMAIN node /\ ~node.code_lines
StatementMode(node) == node._code_lines

\* The leaf lines of the sections of one of the two sorts ("raw",
\* "statement") under a written node, each with its text and the offset its
\* section wrote it at.
RECURSIVE LeafLines(_, _)
LeafLines(node, sort) ==
    (IF (sort = "raw" /\ MarkedRaw(node)) \/ (sort = "statement" /\ StatementMode(node))
     THEN {[text |-> node.sections[i].text, tab |-> node._tab_offset + TabDelta(node)] :
                i \in {j \in DOMAIN node.sections : node.sections[j].kind = "line"}}
     ELSE {})
    \cup UNION {LeafLines(node.sections[i], sort) :
                    i \in {j \in DOMAIN node.sections : node.sections[j].kind # "line"}}
    \cup (IF node.kind = "file" THEN LeafLines(node.javaClass, sort) ELSE {})

Verbatim(leaf) == Indent(leaf.tab) \o leaf.text \o <<"\n">>
Terminated(leaf) == Indent(leaf.tab) \o leaf.text \o <<";", "\n">>

\* C17 as stated: every non-empty leaf line of a section the generator marks
\* raw is in the file with its indentation and its text only, and not with a
\* ';' appended.
C17_RawLinesVerbatim ==
    \A c \in Classes :
        Written(c) =>
            \A leaf \in LeafLines(File(c), "raw") :
                leaf.text # <<>> =>
                    /\ In(Verbatim(leaf), Get(files[c]))
                    /\ ~In(Terminated(leaf), Get(files[c]))

\* C18 as stated: a leaf line of a statement-mode section is written as a bare
\* blank line when its text is empty, verbatim when its text ends with '{',
\* '}', the comment marker '//' or ';', and with ';' appended otherwise.
C18_VerbatimWhenCommentAtEnd ==
    \A c \in Classes :
        Written(c) =>
            \A leaf \in LeafLines(File(c), "statement") :
                IF leaf.text = <<>> THEN In(BlankLine, Get(files[c]))
                ELSE IF \/ Last(leaf.text) \in {"{", "}", ";"}
                        \/ /\ Len(leaf.text) >= 2
                           /\ leaf.text[Len(leaf.text) - 1] = "/" /\ Last(leaf.text) = "/"
                THEN In(Verbatim(leaf), Get(files[c])) /\ ~In(Terminated(leaf), Get(files[c]))
                ELSE In(Terminated(leaf), Get(files[c])) /\ ~In(Verbatim(leaf), Get(files[c]))

\* C18 (amended): a leaf line of a statement-mode section is written as a bare
\* blank line when its text is empty, verbatim when its text ends with '{',
\* '}' or ';' or starts with the comment marker '//', and with ';' appended
\* otherwise, a text that ends with '//' included.
C18_VerbatimWhenCommentAtStart ==
    \A c \in Classes :
        Written(c) =>
            \A leaf \in LeafLines(File(c), "statement") :
                IF leaf.text = <<>> THEN In(BlankLine, Get(files[c]))
                ELSE IF \/ Last(leaf.text) \in {"{", "}", ";"}
                        \/ /\ Len(leaf.text) >= 2
                           /\ leaf.text[1] = "/" /\ leaf.text[2] = "/"
                THEN In(Verbatim(leaf), Get(files[c])) /\ ~In(Terminated(leaf), Get(files[c]))
                ELSE In(Terminated(leaf), Get(files[c])) /\ ~In(Verbatim(leaf), Get(files[c]))

\* A written class with a list interface (texts ending with '{' and '}'), a
\* full constructor (a text ending with ';'), placeholder comments, blank
\* lines, and a toString expression that ends with '//'.
C18_Witness ==
    \E c \in Classes :
        /\ Written(c)
        /\ Json(c).listDef /\ ~Json(c).abstract
        /\ "customToString" \in DOMAIN Json(c)
        /\ Last(Json(c).customToString) = "/"
        /\ \E leaf \in LeafLines(File(c), "statement") :
                Len(leaf.text) >= 2 /\ leaf.text[1] = "/" /\ leaf.text[2] = "/"

\* ---------------------------------------------------- the definitions fragment
\* The entries of the definitions fragment of a generated class: the lines of
\* the section definitions.add appended, without the blank line that closes it.
DefinitionEntries(c) ==
    LET section == Get(BodyPart(c, "registration")).sections[3].sections
    IN  SubSeq(section, 1, Len(section) - 1)

IsAddCall(line, field) ==
    /\ line.kind = "line" /\ Len(line.text) >= 6
    /\ line.text[1] = "dataObjectSchema.add(new "
    /\ SubSeq(line.text, 4, 6) = field.key

IsPlaceholder(line, field) == line = Line(<<"/", "/", " ", field.name>>)

\* C19: the definitions fragment of every generated class has one entry for
\* each element of its full field list, in the list's order: a
\* dataObjectSchema.add call with the field's key for an own field, the
\* comment with the field's name for an inherited one.
C19_OneEntryPerField ==
    \A c \in Classes :
        IsGenerated(c) =>
            /\ Len(DefinitionEntries(c)) = Len(FullFields(c))
            /\ \A i \in DOMAIN FullFields(c) :
                IF In(FullFields(c)[i], Fields(c))
                THEN IsAddCall(DefinitionEntries(c)[i], FullFields(c)[i])
                ELSE IsPlaceholder(DefinitionEntries(c)[i], FullFields(c)[i])

\* A class with two own fields generated under a class that was generated
\* too, the names of its full field list all different.
C19_Witness ==
    \E c \in Classes :
        /\ IsGenerated(c) /\ Len(Fields(c)) = 2
        /\ Parent(c) \in Classes /\ IsGenerated(Parent(c))
        /\ \A i, j \in DOMAIN FullFields(c) :
                i # j => FullFields(c)[i].name # FullFields(c)[j].name
        /\ Len(DefinitionEntries(c)) = 4

\* ------------------------------------------------------------ the class body
\* The parts of the class body of a generated class, in order.
Parts(c) ==
    [i \in DOMAIN File(c).javaClass.sections |-> PartOf(File(c).javaClass.sections[i], c)]

If(condition, parts) == IF condition THEN parts ELSE <<>>

OwnFieldWith(c, flag) == \E i \in DOMAIN Fields(c) : Fields(c)[i][flag]

\* The parts up to the registration method, and those after the constructors.
PartsBefore(c) ==
    If(Json(c).listDef, <<"listDef">>)
        \o If(Fields(c) # <<>>, <<"prefix", "blank">>)
        \o <<"section", "registration">>
PartsAfter(c) ==
    If("customToString" \in DOMAIN Json(c) \/ OwnFieldWith(c, "string_source"),
       <<"General", "section">>)
        \o If(OwnFieldWith(c, "is_override"), <<"Implementations", "section">>)
        \o If(Fields(c) # <<>> /\ ~\A i \in DOMAIN Fields(c) : Fields(c)[i].is_override,
              <<"Getters", "section">>)
        \o If(OwnFieldWith(c, "editable"), <<"Setters", "section">>)

\* C20 as stated: the body is the key constants, the registration method, the
\* minimal constructor, the full constructor when the class is concrete, the
\* general section when it has a string_source field or customToString, then
\* the implements, getters and setters sections.
C20_MinimalConstructorAlways ==
    \A c \in Classes :
        IsGenerated(c) =>
            Parts(c) = PartsBefore(c) \o <<"minimal constructor">>
                        \o If(~Json(c).abstract, <<"full constructor">>)
                        \o PartsAfter(c)

\* C20 (amended): as stated, except that the minimal constructor is present
\* only when some field of the full field list is not flagged
\* avoid_constructor.
C20_BodyOrder ==
    \A c \in Classes :
        IsGenerated(c) =>
            Parts(c) = PartsBefore(c)
                        \o If(\E i \in DOMAIN FullFields(c) : ~FullFields(c)[i].avoid_constructor,
                              <<"minimal constructor">>)
                        \o If(~Json(c).abstract, <<"full constructor">>)
                        \o PartsAfter(c)

\* A concrete class generated with a list interface, a string_source field
\* and a field the constructor takes: both constructors, the general section
\* and the getters are present.
C20_Witness ==
    \E c \in Classes :
        /\ IsGenerated(c) /\ Json(c).listDef /\ ~Json(c).abstract
        /\ OwnFieldWith(c, "string_source")
        /\ \E i \in DOMAIN Parts(c) : Parts(c)[i] = "minimal constructor"
        /\ \E i \in DOMAIN Parts(c) : Parts(c)[i] = "General"
        /\ \E i \in DOMAIN Parts(c) : Parts(c)[i] = "Getters"

====
